---- MODULE Spec2Model ----
(***************************************************************************)
(* Model of custome_code.py: the three operation registries, register_op,  *)
(* the two built-in column operations and apply_columns.                   *)
(*                                                                         *)
(* A table is a sequence of columns; a column is a record                  *)
(* [name, type, vals] with one cell per row.  Every cell is a record       *)
(* [k, s, n, e]: k is the kind of value ("int", "str", "date", "dbl",      *)
(* "null"), s the text of a string or date, and n, e the number            *)
(* n / 10^e of an int (e = 0) or a double.  Doubles are kept as exact      *)
(* decimal fractions, so the 1.1 of the EUR branch is 11 / 10^1.           *)
(*                                                                         *)
(* The dataframe engine is modelled for the calls the source makes:        *)
(* withColumn (append, or replace the column of the same name), col        *)
(* (resolving a column reference, an AnalysisException when it does not    *)
(* resolve), to_date, when/otherwise and the product of two columns, with  *)
(* the engine's non-ANSI casts (a value that does not cast is null).       *)
(***************************************************************************)
EXTENDS Integers, Sequences, FiniteSets, TLC

VARIABLES
  SCHEMA_OPS,      \* dict name -> function, line 4
  COLUMN_OPS,      \* dict name -> function, line 5
  VALIDATION_OPS,  \* dict name -> function, line 6
  pc,              \* position of the caller: "idle", "loop" (inside apply_columns), "returned", "raised"
  arg,             \* the table the caller passed to apply_columns
  df,              \* apply_columns' local df
  columns_config,  \* apply_columns' argument columns_config
  i,               \* 1-based position of the for loop in columns_config
  error,           \* the exception that left apply_columns: [type, op]
  calls,           \* log of the operation functions apply_columns invoked in this call
  registered,      \* log: the function last passed to register_op for each <<kind, name>>
  nregs            \* number of register_op calls made after module load

vars == <<SCHEMA_OPS, COLUMN_OPS, VALIDATION_OPS, pc, arg, df, columns_config, i,
          error, calls, registered, nregs>>

regVars == <<SCHEMA_OPS, COLUMN_OPS, VALIDATION_OPS, registered, nregs>>

\* ---------------------------------------------------------------- bounds
MaxRegs == 2
MaxSpecs == 2
MaxRows == 1

\* ---------------------------------------------------------------- cells
NullCell == [k |-> "null", s |-> "", n |-> 0, e |-> 0]

IntCell(n) == [k |-> "int", s |-> "", n |-> n, e |-> 0]

StrCell(s) == [k |-> "str", s |-> s, n |-> 0, e |-> 0]

DateCell(s) == [k |-> "date", s |-> s, n |-> 0, e |-> 0]

DblCell(n, e) == [k |-> "dbl", s |-> "", n |-> n, e |-> e]

\* ---------------------------------------------------------------- engine
ColNames(t) == {t[j].name : j \in 1..Len(t)}

HasCol(t, c) == c \in ColNames(t)

\* F.col(c) resolved against t (called only when HasCol(t, c))
col(t, c) == t[CHOOSE j \in 1..Len(t) : t[j].name = c]

NumRows(t) == IF Len(t) = 0 THEN 0 ELSE Len(t[1].vals)

\* a withColumn that always appends
withColumn_append(t, name, c) ==
  Append(t, [name |-> name, type |-> c.type, vals |-> c.vals])

\* DataFrame.withColumn: replaces the column of that name where it stands,
\* else appends the new column
withColumn(t, name, c) ==
  IF HasCol(t, name)
  THEN [j \in 1..Len(t) |->
          IF t[j].name = name
          THEN [name |-> name, type |-> c.type, vals |-> c.vals]
          ELSE t[j]]
  ELSE Append(t, [name |-> name, type |-> c.type, vals |-> c.vals])

ValidDates == {"2024-01-15"}

\* F.to_date on one cell of a string or date column
to_date_cell(v) ==
  IF v.k = "date" THEN v
  ELSE IF v.k = "str" /\ v.s \in ValidDates THEN DateCell(v.s)
  ELSE NullCell

\* F.to_date is a cast to date: defined on string and date columns
to_date_ok(c) == c.type \in {"string", "date"}

to_date(c) ==
  [name |-> c.name, type |-> "date",
   vals |-> [r \in 1..Len(c.vals) |-> to_date_cell(c.vals[r])]]

\* the when chain without its EUR branch
when_rate_flat(v) == 10

\* F.when(cur == "USD", 1).when(cur == "EUR", 1.1).otherwise(1), in tenths
when_rate(v) ==
  IF v.k = "str" /\ v.s = "USD" THEN 10
  ELSE IF v.k = "str" /\ v.s = "EUR" THEN 11
  ELSE 10

\* amt * rate on one row; the product is a double; null and text that is
\* no number give null
times_cell(a, r10) ==
  IF a.k \in {"int", "dbl"} THEN DblCell(a.n * r10, a.e + 1) ELSE NullCell

\* the product is defined on numeric and string columns
times_ok(c) == c.type \in {"int", "double", "string"}

Ok(t) == [ok |-> TRUE, df |-> t, exc |-> ""]

Raise(x) == [ok |-> FALSE, df |-> <<>>, exc |-> x]

Absent == "<absent>"

\* ---------------------------------------------------------------- operations
op_date(t, spec) ==
  IF spec.field = Absent THEN Raise("KeyError")
  ELSE IF ~HasCol(t, spec.field) THEN Raise("AnalysisException")
  ELSE IF ~to_date_ok(col(t, spec.field)) THEN Raise("AnalysisException")
  ELSE Ok(withColumn(t, spec.name, to_date(col(t, spec.field))))

op_normalize_currency(t, spec) ==
  IF spec.field = Absent THEN Raise("KeyError")
  ELSE IF ~HasCol(t, spec.field) \/ ~HasCol(t, spec.params.currency_field)
       THEN Raise("AnalysisException")
  ELSE IF ~times_ok(col(t, spec.field)) THEN Raise("AnalysisException")
  ELSE LET amt == col(t, spec.field)
           cur == col(t, spec.params.currency_field)
       IN Ok(withColumn(t, spec.name,
               [name |-> spec.name, type |-> "double",
                vals |-> [r \in 1..NumRows(t) |->
                            times_cell(amt.vals[r], when_rate(cur.vals[r]))]]))

Funcs == {"op_date", "op_normalize_currency"}

\* calling the function object f
Invoke(f, t, spec) ==
  IF f = "op_date" THEN op_date(t, spec) ELSE op_normalize_currency(t, spec)

\* ---------------------------------------------------------------- registry
Kinds == {"schema", "column", "validation"}

\* d.setdefault(k, v): an existing entry is kept
dict_set_keep(d, k, v) ==
  [x \in (DOMAIN d) \cup {k} |-> IF x \in DOMAIN d THEN d[x] ELSE v]

\* d = {k: v}: the other entries are dropped
dict_set_replace(d, k, v) == [x \in {k} |-> v]

\* Python's d[k] = v on a dict
dict_set(d, k, v) == [x \in (DOMAIN d) \cup {k} |-> IF x = k THEN v ELSE d[x]]

EmptyDict == [x \in {} |-> ""]

\* the registries after the module is loaded: lines 4-6, then the two
\* register_op calls of lines 20 and 30
LoadedColumnOps ==
  dict_set(dict_set(EmptyDict, "date", "op_date"),
           "normalize_currency", "op_normalize_currency")

AllKinds == Kinds \cup {"other"}

AllNames == {"date", "normalize_currency", "custom"}

LoadedRegistered ==
  [p \in AllKinds \X AllNames |->
     IF p = <<"column", "date">> THEN "op_date"
     ELSE IF p = <<"column", "normalize_currency">> THEN "op_normalize_currency"
     ELSE ""]

applyVars == <<pc, arg, df, columns_config, i, error, calls>>

\* register_op whose last branch is an else: any other kind is a validation
register_op_else(kind, name, func) ==
  /\ pc = "idle"
  /\ nregs < MaxRegs
  /\ IF kind = "schema"
     THEN /\ SCHEMA_OPS' = dict_set(SCHEMA_OPS, name, func)
          /\ UNCHANGED <<COLUMN_OPS, VALIDATION_OPS>>
     ELSE IF kind = "column"
     THEN /\ COLUMN_OPS' = dict_set(COLUMN_OPS, name, func)
          /\ UNCHANGED <<SCHEMA_OPS, VALIDATION_OPS>>
     ELSE /\ VALIDATION_OPS' = dict_set(VALIDATION_OPS, name, func)
          /\ UNCHANGED <<SCHEMA_OPS, COLUMN_OPS>>
  /\ registered' = [registered EXCEPT ![<<kind, name>>] = func]
  /\ nregs' = nregs + 1
  /\ UNCHANGED applyVars

\* register_op whose schema branch also writes the column registry
register_op_shared(kind, name, func) ==
  /\ pc = "idle"
  /\ nregs < MaxRegs
  /\ IF kind = "schema"
     THEN /\ SCHEMA_OPS' = dict_set(SCHEMA_OPS, name, func)
          /\ COLUMN_OPS' = dict_set(COLUMN_OPS, name, func)
          /\ UNCHANGED VALIDATION_OPS
     ELSE IF kind = "column"
     THEN /\ COLUMN_OPS' = dict_set(COLUMN_OPS, name, func)
          /\ UNCHANGED <<SCHEMA_OPS, VALIDATION_OPS>>
     ELSE IF kind = "validation"
     THEN /\ VALIDATION_OPS' = dict_set(VALIDATION_OPS, name, func)
          /\ UNCHANGED <<SCHEMA_OPS, COLUMN_OPS>>
     ELSE UNCHANGED <<SCHEMA_OPS, COLUMN_OPS, VALIDATION_OPS>>
  /\ registered' = [registered EXCEPT ![<<kind, name>>] = func]
  /\ nregs' = nregs + 1
  /\ UNCHANGED applyVars

\* register_op, lines 8-14, called while no apply_columns call is running
register_op(kind, name, func) ==
  /\ pc = "idle"
  /\ nregs < MaxRegs
  /\ IF kind = "schema"
     THEN /\ SCHEMA_OPS' = dict_set(SCHEMA_OPS, name, func)
          /\ UNCHANGED <<COLUMN_OPS, VALIDATION_OPS>>
     ELSE IF kind = "column"
     THEN /\ COLUMN_OPS' = dict_set(COLUMN_OPS, name, func)
          /\ UNCHANGED <<SCHEMA_OPS, VALIDATION_OPS>>
     ELSE IF kind = "validation"
     THEN /\ VALIDATION_OPS' = dict_set(VALIDATION_OPS, name, func)
          /\ UNCHANGED <<SCHEMA_OPS, COLUMN_OPS>>
     ELSE UNCHANGED <<SCHEMA_OPS, COLUMN_OPS, VALIDATION_OPS>>
  /\ registered' = [registered EXCEPT ![<<kind, name>>] = func]
  /\ nregs' = nregs + 1
  /\ UNCHANGED applyVars

\* ---------------------------------------------------------------- apply_columns
NoError == [type |-> "", op |-> ""]

\* the caller enters apply_columns(t, cfg)
apply_columns(t, cfg) ==
  /\ pc = "idle"
  /\ pc' = "loop"
  /\ arg' = t
  /\ df' = t
  /\ columns_config' = cfg
  /\ i' = 1
  /\ error' = NoError
  /\ calls' = <<>>
  /\ UNCHANGED regVars

\* position of the first spec of cfg whose op is not in COLUMN_OPS, 0 if none
FirstUnknown(cfg) ==
  IF \E j \in 1..Len(cfg) : cfg[j].op \notin DOMAIN COLUMN_OPS
  THEN CHOOSE j \in 1..Len(cfg) :
         /\ cfg[j].op \notin DOMAIN COLUMN_OPS
         /\ \A h \in 1..(j - 1) : cfg[h].op \in DOMAIN COLUMN_OPS
  ELSE 0

\* line 37 passes the loop by: the unknown op is skipped
raise_unknown_skip(op_name) ==
  /\ i' = i + 1
  /\ UNCHANGED <<pc, error, df, calls>>
  /\ UNCHANGED regVars

\* line 37 preceded by a write of a placeholder entry for the unknown op
raise_unknown_memo(op_name) ==
  /\ pc' = "raised"
  /\ error' = [type |-> "ValueError", op |-> op_name]
  /\ COLUMN_OPS' = dict_set(COLUMN_OPS, op_name, "op_date")
  /\ UNCHANGED <<df, i, calls>>
  /\ UNCHANGED <<SCHEMA_OPS, VALIDATION_OPS, registered, nregs>>

\* line 37: raise ValueError(f"Unknown column op: {op_name}")
raise_unknown(op_name) ==
  /\ pc' = "raised"
  /\ error' = [type |-> "ValueError", op |-> op_name]
  /\ UNCHANGED <<df, i, calls>>
  /\ UNCHANGED regVars

\* line 38 with the caller's table in place of the local df
assign_df_fromArg(f, t, spec) ==
  LET r == Invoke(f, arg, spec)
  IN /\ calls' = Append(calls, [func |-> f, idx |-> i, op |-> spec.op, input |-> arg])
     /\ IF r.ok
        THEN /\ df' = r.df
             /\ i' = i + 1
             /\ UNCHANGED <<pc, error>>
        ELSE /\ pc' = "raised"
             /\ error' = [type |-> r.exc, op |-> ""]
             /\ UNCHANGED <<df, i>>
     /\ UNCHANGED regVars

\* line 38: df = f(t, spec), f the function found in COLUMN_OPS and t the
\* local df; an exception of f leaves apply_columns
assign_df(f, t, spec) ==
  LET r == Invoke(f, t, spec)
  IN /\ calls' = Append(calls, [func |-> f, idx |-> i, op |-> spec.op, input |-> t])
     /\ IF r.ok
        THEN /\ df' = r.df
             /\ i' = i + 1
             /\ UNCHANGED <<pc, error>>
        ELSE /\ pc' = "raised"
             /\ error' = [type |-> r.exc, op |-> ""]
             /\ UNCHANGED <<df, i>>
     /\ UNCHANGED regVars

\* the for loop with every op of the list looked up before any is applied
LoopBody_precheck ==
  /\ pc = "loop"
  /\ i <= Len(columns_config)
  /\ LET spec == columns_config[i]
         u == FirstUnknown(columns_config)
     IN IF u > 0
        THEN raise_unknown(columns_config[u].op)
        ELSE assign_df(COLUMN_OPS[spec.op], df, spec)
  /\ UNCHANGED <<arg, columns_config>>

\* one iteration of the for loop, lines 34-38
LoopBody ==
  /\ pc = "loop"
  /\ i <= Len(columns_config)
  /\ LET spec == columns_config[i]
         op_name == spec.op
     IN IF op_name \notin DOMAIN COLUMN_OPS
        THEN raise_unknown(op_name)
        ELSE assign_df(COLUMN_OPS[op_name], df, spec)
  /\ UNCHANGED <<arg, columns_config>>

\* the loop is exhausted: return df, line 39
Return ==
  /\ pc = "loop"
  /\ i > Len(columns_config)
  /\ pc' = "returned"
  /\ UNCHANGED <<arg, df, columns_config, i, error, calls>>
  /\ UNCHANGED regVars

\* the caller has taken the table returned, or the exception raised
Done ==
  /\ pc \in {"returned", "raised"}
  /\ pc' = "idle"
  /\ arg' = <<>>
  /\ df' = <<>>
  /\ columns_config' = <<>>
  /\ i' = 0
  /\ error' = NoError
  /\ calls' = <<>>
  /\ UNCHANGED regVars

\* ---------------------------------------------------------------- inputs
\* the sequences over S of length at most n
SeqsUpTo(S, n) == UNION {[1..k -> S] : k \in 0..n}

Amounts == {100, 7}

Currencies == {"USD", "EUR", "GBP"}

Days == {"2024-01-15", "oops"}

Rows == [amount : Amounts, currency : Currencies, day : Days]

\* the table with columns amount, currency, day holding the rows rs
MkTable(rs) ==
  << [name |-> "amount", type |-> "int",
      vals |-> [r \in 1..Len(rs) |-> IntCell(rs[r].amount)]],
     [name |-> "currency", type |-> "string",
      vals |-> [r \in 1..Len(rs) |-> StrCell(rs[r].currency)]],
     [name |-> "day", type |-> "string",
      vals |-> [r \in 1..Len(rs) |-> StrCell(rs[r].day)]] >>

\* the tables of 1 to MaxRows rows
Tables == {MkTable(rs) : rs \in SeqsUpTo(Rows, MaxRows) \ {<<>>}}

Table1 == MkTable(<<[amount |-> 100, currency |-> "EUR", day |-> "2024-01-15"]>>)

Table2 == MkTable(<<[amount |-> 7, currency |-> "GBP", day |-> "oops"]>>)

MkSpec(o, n, f) ==
  [op |-> o, name |-> n, field |-> f, params |-> [currency_field |-> "currency"]]

\* specs of the registry specification: any op name, one output, one field
RegSpecs == {MkSpec(o, "out", "day") : o \in AllNames \cup {"bogus"}}

\* specs of the fold specifications: known and unknown ops, a fresh or an
\* existing output name, a field that is numeric, text, created by an
\* earlier spec, or missing from the spec
FoldSpecs ==
  {MkSpec(o, n, f) : o \in {"date", "normalize_currency", "bogus"},
                     n \in {"out", "day"},
                     f \in {"amount", "day", "out", Absent}}

\* ---------------------------------------------------------------- specifications
Init ==
  /\ SCHEMA_OPS = EmptyDict
  /\ COLUMN_OPS = LoadedColumnOps
  /\ VALIDATION_OPS = EmptyDict
  /\ registered = LoadedRegistered
  /\ nregs = 0
  /\ pc = "idle"
  /\ arg = <<>>
  /\ df = <<>>
  /\ columns_config = <<>>
  /\ i = 0
  /\ error = NoError
  /\ calls = <<>>

Register ==
  \E kind \in AllKinds, name \in {"date", "custom"}, func \in Funcs :
    register_op(kind, name, func)

\* registry specification: registrations interleaved with calls
CallReg ==
  /\ pc = "idle"
  /\ \E cfg \in SeqsUpTo(RegSpecs, MaxSpecs) : apply_columns(Table1, cfg)

Next == Register \/ CallReg \/ LoopBody \/ Return \/ Done

Spec == Init /\ [][Next]_vars

\* fold specification: the loaded registry, every spec list up to MaxSpecs
CallFold ==
  /\ pc = "idle"
  /\ \E t \in {Table1, Table2}, cfg \in SeqsUpTo(FoldSpecs, MaxSpecs) : apply_columns(t, cfg)

NextFold == CallFold \/ LoopBody \/ Return \/ Done

SpecFold == Init /\ [][NextFold]_vars

\* operation specification: one spec applied to every table up to MaxRows
CallOp ==
  /\ pc = "idle"
  /\ \E t \in Tables, s \in FoldSpecs : apply_columns(t, <<s>>)

NextOp == CallOp \/ LoopBody \/ Return \/ Done

SpecOp == Init /\ [][NextOp]_vars

\* ---------------------------------------------------------------- reference fold
RECURSIVE Fold(_, _, _)
\* f_k(... f_1(t, cfg[1]) ..., cfg[k]) with f_j the function COLUMN_OPS holds
\* for cfg[j].op; an exception of one function is the result
Fold(t, cfg, k) ==
  IF k = 0 THEN Ok(t)
  ELSE LET p == Fold(t, cfg, k - 1)
       IN IF p.ok THEN Invoke(COLUMN_OPS[cfg[k].op], p.df, cfg[k]) ELSE p

Terminal == pc \in {"returned", "raised"}

\* ---------------------------------------------------------------- C1
\* C1 as stated: whenever the spec list holds an unknown op, apply_columns
\* ends by raising the error that names the first unknown op, and no function
\* was invoked for that spec or a later one.
C1_AsStated ==
  (Terminal /\ FirstUnknown(columns_config) > 0) =>
     /\ pc = "raised"
     /\ error = [type |-> "ValueError", op |-> columns_config[FirstUnknown(columns_config)].op]
     /\ \A c \in 1..Len(calls) : calls[c].idx < FirstUnknown(columns_config)

\* C1 amended: whenever the spec list holds an unknown op, apply_columns
\* ends by raising and returns no table, and no function is invoked for the
\* first unknown spec or a later one; the error is the ValueError naming the
\* first unknown op provided the functions of the specs before it all
\* returned, and the exception of the earlier function that raised otherwise.
C1_FirstUnknownAborts ==
  (Terminal /\ FirstUnknown(columns_config) > 0) =>
     LET u == FirstUnknown(columns_config)
         before == Fold(arg, columns_config, u - 1)
     IN /\ pc = "raised"
        /\ \A c \in 1..Len(calls) : calls[c].idx < u
        /\ before.ok =>
             error = [type |-> "ValueError", op |-> columns_config[u].op]
        /\ ~before.ok => error = [type |-> before.exc, op |-> ""]

\* an unknown op followed by a known one: the ValueError names it and the
\* later spec's function was not invoked
C1_Witness ==
  /\ pc = "raised"
  /\ Len(columns_config) = 2
  /\ columns_config[1].op = "bogus"
  /\ columns_config[2].op = "date"
  /\ error = [type |-> "ValueError", op |-> "bogus"]
  /\ calls = <<>>

\* ---------------------------------------------------------------- C2
\* C2: for a list [S1, S2] of registered ops, apply_columns(T, [S1, S2]) is
\* f2(f1(T, S1), S2): the same table when it returns, the same exception when
\* a function raises; f1 is invoked once on T, then f2 once on the table f1
\* returned (never on T), in that order, and no function is invoked again.
C2_FoldLeftToRight ==
  (/\ Terminal
   /\ Len(columns_config) = 2
   /\ \A j \in 1..2 : columns_config[j].op \in DOMAIN COLUMN_OPS) =>
     LET S1 == columns_config[1]
         S2 == columns_config[2]
         f1 == COLUMN_OPS[S1.op]
         f2 == COLUMN_OPS[S2.op]
         r1 == Invoke(f1, arg, S1)
         r2 == IF r1.ok THEN Invoke(f2, r1.df, S2) ELSE r1
         call1 == [func |-> f1, idx |-> 1, op |-> S1.op, input |-> arg]
         call2 == [func |-> f2, idx |-> 2, op |-> S2.op, input |-> r1.df]
     IN /\ (pc = "returned") = r2.ok
        /\ pc = "returned" => df = r2.df
        /\ pc = "raised" => error = [type |-> r2.exc, op |-> ""]
        /\ calls = IF r1.ok THEN <<call1, call2>> ELSE <<call1>>

\* a returned call whose second spec reads the column the first one created:
\* the second function applied to T itself would have raised
C2_Witness ==
  /\ pc = "returned"
  /\ Len(columns_config) = 2
  /\ ~HasCol(arg, "out")
  /\ columns_config[1].name = "out"
  /\ columns_config[2].field = "out"
  /\ Len(calls) = 2
  /\ ~Invoke(calls[2].func, arg, columns_config[2]).ok

\* ---------------------------------------------------------------- C5
\* C5 as stated: when apply_columns raises the unknown-op error, no operation
\* of the list has been applied to the table.
C5_AsStated ==
  (pc = "raised" /\ error.type = "ValueError") => (calls = <<>> /\ df = arg)

\* C5 amended: when apply_columns raises the unknown-op error it returns no
\* table, and at that moment exactly the operations of the specs before the
\* first unknown op have been applied, in order, to the working table, and
\* none for the unknown spec or a later one; no operation has been applied
\* only when the unknown op is the first spec of the list.
C5_PrefixApplied ==
  (pc = "raised" /\ error.type = "ValueError") =>
     LET u == FirstUnknown(columns_config)
     IN /\ u > 0
        /\ i = u
        /\ Len(calls) = u - 1
        /\ \A c \in 1..Len(calls) : calls[c].idx = c
        /\ Fold(arg, columns_config, u - 1) = Ok(df)
        /\ (calls = <<>>) = (u = 1)

\* the unknown op stands second: the first spec's column has been added to
\* the working table when the error is raised
C5_Witness ==
  /\ pc = "raised"
  /\ error.type = "ValueError"
  /\ FirstUnknown(columns_config) = 2
  /\ Len(calls) = 1
  /\ df # arg
  /\ HasCol(df, "out")

\* ---------------------------------------------------------------- C4
\* the table t without its column at position p
WithoutCol(t, p) == [j \in 1..(Len(t) - 1) |-> IF j < p THEN t[j] ELSE t[j + 1]]

\* C4 as stated: the table apply_columns(T, [S]) returns has exactly one
\* column more than T, the added column is named S["name"], and the columns of
\* T are all there, unchanged and in the same order, whatever S["name"] is.
C4_AsStated ==
  (pc = "returned" /\ Len(columns_config) = 1) =>
     /\ Len(df) = Len(arg) + 1
     /\ \E p \in 1..Len(df) :
          /\ df[p].name = columns_config[1].name
          /\ WithoutCol(df, p) = arg

\* C4 amended: when S["name"] is not a column of T, the table
\* apply_columns(T, [S]) returns is T with one column named S["name"] appended
\* after the columns of T, which are unchanged; when S["name"] is already a
\* column of T, the returned table has the columns of T, same names and same
\* positions, the column S["name"] holds the new content where it stood, and
\* every other column is unchanged.
C4_AddsOrReplaces ==
  (pc = "returned" /\ Len(columns_config) = 1) =>
     LET name == columns_config[1].name
         r == Invoke(COLUMN_OPS[columns_config[1].op], arg, columns_config[1])
     IN IF ~HasCol(arg, name)
        THEN /\ Len(df) = Len(arg) + 1
             /\ df[Len(df)].name = name
             /\ SubSeq(df, 1, Len(arg)) = arg
        ELSE /\ Len(df) = Len(arg)
             /\ \A j \in 1..Len(arg) :
                  /\ df[j].name = arg[j].name
                  /\ arg[j].name # name => df[j] = arg[j]
                  /\ arg[j].name = name => df[j] = col(r.df, name)

\* S["name"] is the existing column day: the returned table has as many
\* columns as T and day now holds the new content
C4_Witness ==
  /\ pc = "returned"
  /\ Len(columns_config) = 1
  /\ columns_config[1].name = "day"
  /\ HasCol(arg, "day")
  /\ Len(df) = Len(arg)
  /\ col(df, "day") # col(arg, "day")

\* ---------------------------------------------------------------- C7
\* rate(currency) in tenths
Rate10(code) == IF code = "EUR" THEN 11 ELSE 10

\* C7: normalize_currency applied to an integer amount column and a currency
\* column writes to the column spec["name"], for every row, the double
\* amount * rate(currency) with rate 1 for USD, 1.1 for EUR and 1 for any
\* other code: 100 gives 100 for USD, 110 for EUR, 100 for GBP.
C7_NormalizeCurrency ==
  (/\ pc = "returned"
   /\ Len(columns_config) = 1
   /\ columns_config[1].op = "normalize_currency"
   /\ columns_config[1].field = "amount") =>
     LET out == col(df, columns_config[1].name)
         amt == col(arg, "amount")
         cur == col(arg, "currency")
     IN /\ HasCol(df, columns_config[1].name)
        /\ out.type = "double"
        /\ Len(out.vals) = NumRows(arg)
        /\ \A r \in 1..NumRows(arg) :
             /\ out.vals[r].k = "dbl"
             /\ out.vals[r].e = 1
             /\ out.vals[r].n = amt.vals[r].n * Rate10(cur.vals[r].s)
             /\ amt.vals[r].n = 100 =>
                  out.vals[r].n = (CASE cur.vals[r].s = "USD" -> 1000
                                     [] cur.vals[r].s = "EUR" -> 1100
                                     [] cur.vals[r].s = "GBP" -> 1000)

\* amount 100 in EUR has become 110 (1100 tenths) in the column out
C7_Witness ==
  /\ pc = "returned"
  /\ Len(columns_config) = 1
  /\ columns_config[1].op = "normalize_currency"
  /\ columns_config[1].field = "amount"
  /\ columns_config[1].name = "out"
  /\ NumRows(arg) > 0
  /\ col(arg, "amount").vals[1] = IntCell(100)
  /\ col(arg, "currency").vals[1] = StrCell("EUR")
  /\ col(df, "out").vals[1] = DblCell(1100, 1)

\* ---------------------------------------------------------------- registry claims
\* the partition of a recognized kind
Partition(kind) ==
  IF kind = "schema" THEN SCHEMA_OPS
  ELSE IF kind = "column" THEN COLUMN_OPS
  ELSE VALIDATION_OPS

\* the function a partition holds for a name, "" when it holds none
Entry(kind, name) ==
  IF name \in DOMAIN Partition(kind) THEN Partition(kind)[name] ELSE ""

partitions == <<SCHEMA_OPS, COLUMN_OPS, VALIDATION_OPS>>

\* ---------------------------------------------------------------- C3
\* C3: for each of the three kinds, the entry a partition holds for a name is
\* the function of the latest register call for that kind and name, whatever
\* was registered for it before and for other pairs in between; and every
\* function apply_columns invokes for an op is the one registered last for
\* that op under "column".
C3_Overwrite ==
  /\ \A kind \in Kinds, name \in AllNames :
       registered[<<kind, name>>] # "" =>
          /\ name \in DOMAIN Partition(kind)
          /\ Partition(kind)[name] = registered[<<kind, name>>]
  /\ \A c \in 1..Len(calls) : calls[c].func = registered[<<"column", calls[c].op>>]

\* "date", registered with op_date at load, was registered again with
\* op_normalize_currency, which is what apply_columns then invoked for it
C3_Witness ==
  /\ COLUMN_OPS["date"] = "op_normalize_currency"
  /\ Len(calls) > 0
  /\ calls[1].op = "date"
  /\ calls[1].func = "op_normalize_currency"
  /\ pc = "returned"

\* ---------------------------------------------------------------- C6
\* C6: a register call that is not the latest registration of any recognized
\* kind and name (so every call with an unrecognized kind) leaves the three
\* partitions as they were and raises nothing, so that apply_columns finds
\* in COLUMN_OPS what it found before.
C6_UnknownKindNoOp ==
  [][(/\ nregs' = nregs + 1
      /\ \A kind \in Kinds, name \in AllNames :
           registered'[<<kind, name>>] = registered[<<kind, name>>])
     => (UNCHANGED partitions /\ UNCHANGED applyVars)]_vars

\* "custom" was registered under the kind "other" only: no partition holds
\* it and apply_columns still rejects it as unknown
C6_Witness ==
  /\ registered[<<"other", "custom">>] # ""
  /\ \A kind \in Kinds : "custom" \notin DOMAIN Partition(kind)
  /\ pc = "raised"
  /\ error = [type |-> "ValueError", op |-> "custom"]

\* ---------------------------------------------------------------- C8
\* C8: no step of an apply_columns call, from its start to its return or
\* raise, changes a partition; a partition changes only in a register call.
C8_RegistryFrame ==
  [][/\ (pc = "loop" \/ pc' = "loop") => UNCHANGED partitions
     /\ partitions' # partitions => nregs' = nregs + 1]_vars

\* a call that ended on an unknown op after one operation, with entries in
\* the schema partition
C8_Witness ==
  /\ pc = "raised"
  /\ error.type = "ValueError"
  /\ Len(calls) = 1
  /\ DOMAIN SCHEMA_OPS # {}

\* ---------------------------------------------------------------- C9
\* C9: the built-in names "date" and "normalize_currency" are in the column
\* partition in every state, and no step removes a name from a partition.
C9_NamesOnlyGrow ==
  /\ []({"date", "normalize_currency"} \subseteq DOMAIN COLUMN_OPS)
  /\ [][/\ DOMAIN SCHEMA_OPS \subseteq DOMAIN SCHEMA_OPS'
        /\ DOMAIN COLUMN_OPS \subseteq DOMAIN COLUMN_OPS'
        /\ DOMAIN VALIDATION_OPS \subseteq DOMAIN VALIDATION_OPS']_vars

\* "custom" was added to the column partition, a further registration
\* followed, and apply_columns has applied a spec with op "custom"
C9_Witness ==
  /\ nregs = 2
  /\ "custom" \in DOMAIN COLUMN_OPS
  /\ pc = "returned"
  /\ Len(calls) > 0
  /\ calls[1].op = "custom"

\* ---------------------------------------------------------------- C10
\* C10: a register call changes no entry other than the one of its kind and
\* name; the op apply_columns rejects as unknown is not in COLUMN_OPS, the
\* ops of a call that returned are all in COLUMN_OPS, whatever the schema
\* and validation partitions hold, and the function invoked for an op is
\* the one COLUMN_OPS holds for it.
C10_PartitionIsolation ==
  /\ [][nregs' = nregs + 1 =>
          \A kind \in Kinds, name \in AllNames :
            registered'[<<kind, name>>] = registered[<<kind, name>>]
               => Entry(kind, name)' = Entry(kind, name)]_vars
  /\ []((pc = "raised" /\ error.type = "ValueError")
           => error.op \notin DOMAIN COLUMN_OPS)
  /\ [](pc = "returned" =>
          \A j \in 1..Len(columns_config) : columns_config[j].op \in DOMAIN COLUMN_OPS)
  /\ [](\A c \in 1..Len(calls) : calls[c].func = COLUMN_OPS[calls[c].op])

\* "custom" is registered under "schema" and "validation" but not "column":
\* apply_columns rejects it as unknown
C10_Witness ==
  /\ "custom" \in DOMAIN SCHEMA_OPS
  /\ "custom" \in DOMAIN VALIDATION_OPS
  /\ "custom" \notin DOMAIN COLUMN_OPS
  /\ pc = "raised"
  /\ error = [type |-> "ValueError", op |-> "custom"]

====
